---- MODULE Spec2Model ----
(***************************************************************************)
(* Model of the response parser of src/lib/ai-client.ts (parseResponse and *)
(* parseImageOrder; src/unnamed/part_001 holds the same two functions).    *)
(*                                                                         *)
(* A text is a sequence of symbols.  A symbol is one character ("#", "-",  *)
(* " ", "\n", "1", ".", "*", ...) or one run of letters that the patterns  *)
(* only ever match as a whole ("SUGEROWANA", "Image", "a", ...).  Offsets  *)
(* and lengths are counted in symbols and are 0-based as in JavaScript.    *)
(* The Polish letters of the marker phrases are written without their      *)
(* diacritics: "KOLEJNOSC ZDJEC:" stands for the phrase of the source.     *)
(***************************************************************************)
EXTENDS Integers, Sequences, FiniteSets, TLC

VARIABLES text, pc, splitIndex, usedMarkerLength, post, imageOrderText, imageOrder,
          env, inv, calls, http, browser

vars == <<text, pc, splitIndex, usedMarkerLength, post, imageOrderText, imageOrder,
          env, inv, calls, http, browser>>

(***************************************************************************)
(* Character classes of the JavaScript regular expressions and of trim().  *)
(***************************************************************************)
\* \s and String.prototype.trim: white space and line terminators
IsWhiteSpace(c) == c \in {" ", "\t", "\n", "\r"}

\* what "." does not match and where ^ and $ match under the m flag
IsLineTerminator(c) == c \in {"\n", "\r"}

\* \d
IsDigit(c) == c \in {"0", "1", "2", "3", "4", "5", "6", "7", "8", "9"}

DigitVal(c) ==
    CASE c = "0" -> 0 [] c = "1" -> 1 [] c = "2" -> 2 [] c = "3" -> 3
      [] c = "4" -> 4 [] c = "5" -> 5 [] c = "6" -> 6 [] c = "7" -> 7
      [] c = "8" -> 8 [] c = "9" -> 9

\* the separator class [\.\)\-\:]
IsSeparator(c) == c \in {".", ")", "-", ":"}

\* the i flag: two symbols match when their canonical (upper case) forms agree
\* Canon without the i flag: every symbol stands for itself
CanonCaseSensitive(c) == c

Canon(c) ==
    CASE c \in {"Kolejnosc zdjec:", "kolejnosc zdjec:"} -> "KOLEJNOSC ZDJEC:"
      [] c \in {"Sugerowana", "sugerowana"} -> "SUGEROWANA"
      [] c \in {"Image", "image"} -> "IMAGE"
      [] OTHER -> c

(***************************************************************************)
(* String operations.                                                      *)
(***************************************************************************)
\* text.substring(from, to) for 0 <= from <= to <= text.length
substring(s, from, to) == SubSeq(s, from + 1, to)

\* the offset of the first symbol at or after k that is not white space
RECURSIVE SkipSpace(_, _)
SkipSpace(s, k) ==
    IF k < Len(s) /\ IsWhiteSpace(s[k + 1]) THEN SkipSpace(s, k + 1) ELSE k

\* the offset after the last symbol that is not white space (0 when there is none)
RECURSIVE TrimEnd(_, _)
TrimEnd(s, k) ==
    IF k > 0 /\ IsWhiteSpace(s[k]) THEN TrimEnd(s, k - 1) ELSE k

\* String.prototype.trim
trim(s) ==
    LET from == SkipSpace(s, 0)
        to   == TrimEnd(s, Len(s))
    IN  IF from >= to THEN <<>> ELSE substring(s, from, to)

\* the literal lit stands at offset k of s (compared under the i flag)
LitAt(s, k, lit) ==
    /\ k + Len(lit) <= Len(s)
    /\ \A n \in 1..Len(lit) : Canon(s[k + n]) = Canon(lit[n])

(***************************************************************************)
(* The marker patterns of parseResponse.                                   *)
(***************************************************************************)
SUGEROWANA == <<"SUGEROWANA", " ", "KOLEJNOSC ZDJEC:">>

\* the second pattern asking for the word Sugerowana before its phrase
KolejnoscAfterSugerowana == <<"Sugerowana", " ", "Kolejnosc zdjec:">>

Kolejnosc == <<"Kolejnosc zdjec:">>

KOLEJNOSC == <<"KOLEJNOSC ZDJEC:">>

markers ==
    << [kind |-> "heading", phrase |-> SUGEROWANA],
       [kind |-> "heading", phrase |-> Kolejnosc],
       [kind |-> "heading", phrase |-> KOLEJNOSC],
       [kind |-> "rule",    phrase |-> <<>>] >>

NoMatch == [index |-> -1, length |-> 0]

\* \s*PHRASE from offset k: the offset after the phrase, or -1.  \s* is greedy and
\* giving white space back never helps, as no phrase starts with white space.
HeadingTail(s, k, phrase) ==
    LET j == SkipSpace(s, k)
    IN  IF LitAt(s, j, phrase) THEN j + Len(phrase) ELSE -1

\* /##?\s*PHRASE/i tried at offset k: the length of the match, 0 when there is none.
\* The optional second # is taken first and given back when the rest fails.
HeadingAt(s, k, phrase) ==
    IF k < Len(s) /\ s[k + 1] = "#"
    THEN LET two == IF k + 1 < Len(s) /\ s[k + 2] = "#"
                    THEN HeadingTail(s, k + 2, phrase) ELSE -1
             one == HeadingTail(s, k + 1, phrase)
             to  == IF two # -1 THEN two ELSE one
         IN  IF to = -1 THEN 0 ELSE to - k
    ELSE 0

\* RuleAt without the anchors ^ and $: a --- anywhere in the text
RuleAtUnanchored(s, k) ==
    IF k + 3 <= Len(s) /\ s[k + 1] = "-" /\ s[k + 2] = "-" /\ s[k + 3] = "-"
    THEN 3 ELSE 0

\* /^---$/m tried at offset k: ^ and $ match at the ends of the text and next to
\* a line terminator
RuleAt(s, k) ==
    IF /\ k + 3 <= Len(s)
       /\ s[k + 1] = "-" /\ s[k + 2] = "-" /\ s[k + 3] = "-"
       /\ (k = 0 \/ IsLineTerminator(s[k]))
       /\ (k + 3 = Len(s) \/ IsLineTerminator(s[k + 4]))
    THEN 3 ELSE 0

MatchAt(s, k, marker) ==
    IF marker.kind = "heading" THEN HeadingAt(s, k, marker.phrase) ELSE RuleAt(s, k)

\* text.match(marker) without the g flag: the leftmost match
match(s, marker) ==
    LET hits == {k \in 0..(Len(s) - 1) : MatchAt(s, k, marker) > 0}
    IN  IF hits = {} THEN NoMatch
        ELSE LET k == CHOOSE h \in hits : \A g \in hits : h <= g
             IN  [index |-> k, length |-> MatchAt(s, k, marker)]

\* ConsiderMarker keeping the first pattern that matches instead of the latest match
ConsiderMarkerFirstWins(s, acc, marker) ==
    LET m == match(s, marker)
    IN  IF m # NoMatch /\ acc = NoMatch THEN m ELSE acc

\* one pass of the loop over the markers: a match replaces the split point only
\* when it lies strictly after it
ConsiderMarker(s, acc, marker) ==
    LET m == match(s, marker)
    IN  IF m # NoMatch /\ m.index > acc.index THEN m ELSE acc

\* the loop over the marker list ms, from its n-th entry on
RECURSIVE FindSplit(_, _, _, _)
FindSplit(s, ms, n, acc) ==
    IF n > Len(ms) THEN acc
    ELSE FindSplit(s, ms, n + 1, ConsiderMarker(s, acc, ms[n]))

\* StripRule without the \s*$ of its pattern: the first --- of s is cut out
StripRuleAnywhere(s) ==
    LET hits == {k \in 0..(Len(s) - 3) :
                    s[k + 1] = "-" /\ s[k + 2] = "-" /\ s[k + 3] = "-"}
    IN  IF hits = {} THEN s
        ELSE LET k == CHOOSE h \in hits : \A g \in hits : h <= g
             IN  substring(s, 0, k) \o substring(s, k + 3, Len(s))

\* .replace(/---\s*$/, ''): the leftmost --- that only white space separates from
\* the end of s is removed together with that white space
StripRule(s) ==
    LET hits == {k \in 0..(Len(s) - 3) :
                    /\ s[k + 1] = "-" /\ s[k + 2] = "-" /\ s[k + 3] = "-"
                    /\ SkipSpace(s, k + 3) = Len(s)}
    IN  IF hits = {} THEN s
        ELSE substring(s, 0, CHOOSE h \in hits : \A g \in hits : h <= g)

(***************************************************************************)
(* parseImageOrder.                                                        *)
(***************************************************************************)
\* split on "\r\n" instead of "\n": a text without "\r" stays in one piece
RECURSIVE splitCRLF(_, _, _)
splitCRLF(s, k, piece) ==
    IF k >= Len(s) THEN <<piece>>
    ELSE IF k + 1 < Len(s) /\ s[k + 1] = "\r" /\ s[k + 2] = "\n"
         THEN <<piece>> \o splitCRLF(s, k + 2, <<>>)
    ELSE splitCRLF(s, k + 1, Append(piece, s[k + 1]))

\* text.split('\n'): the pieces between the "\n" symbols ("" gives one empty piece)
RECURSIVE split(_, _, _)
split(s, k, piece) ==
    IF k >= Len(s) THEN <<piece>>
    ELSE IF s[k + 1] = "\n" THEN <<piece>> \o split(s, k + 1, <<>>)
    ELSE split(s, k + 1, Append(piece, s[k + 1]))

\* .filter(line => line.trim())
RECURSIVE filterNonBlank(_)
filterNonBlank(ls) ==
    IF ls = <<>> THEN <<>>
    ELSE IF trim(Head(ls)) # <<>> THEN <<Head(ls)>> \o filterNonBlank(Tail(ls))
    ELSE filterNonBlank(Tail(ls))

RECURSIVE SkipDigits(_, _)
SkipDigits(s, k) ==
    IF k < Len(s) /\ IsDigit(s[k + 1]) THEN SkipDigits(s, k + 1) ELSE k

NoLineMatch == [ok |-> FALSE, digits |-> <<>>, rest |-> <<>>]

\* (\d+)[\.\)\-\:]\s*(.+)$ from offset k of the line.  \d+ is greedy and giving a
\* digit back never helps (a digit is no separator).  \s* is greedy; when it has
\* eaten the line to its end it gives back its last symbol to (.+).  "." matches
\* no line terminator, and $ (no m flag) only the end of the line.
LineTail(line, k) ==
    LET d == SkipDigits(line, k)
    IN  IF d = k \/ d >= Len(line) \/ ~IsSeparator(line[d + 1]) THEN NoLineMatch
        ELSE LET w    == SkipSpace(line, d + 1)
                 from == IF w = Len(line) /\ w > d + 1 THEN w - 1 ELSE w
             IN  IF /\ from < Len(line)
                    /\ \A n \in (from + 1)..Len(line) : ~IsLineTerminator(line[n])
                 THEN [ok |-> TRUE, digits |-> substring(line, k, d),
                       rest |-> substring(line, from, Len(line))]
                 ELSE NoLineMatch

\* line.match(/^(?:Image\s+)?(\d+)[\.\)\-\:]\s*(.+)$/i): the optional prefix is
\* tried first and dropped when the rest fails after it
matchLine(line) ==
    LET j == SkipSpace(line, 1)
        withPrefix == IF Len(line) >= 2 /\ Canon(line[1]) = "IMAGE" /\ j > 1
                      THEN LineTail(line, j) ELSE NoLineMatch
    IN  IF withPrefix.ok THEN withPrefix ELSE LineTail(line, 0)

\* parseInt(digits, 10) of a non-empty run of digits
RECURSIVE parseInt(_)
parseInt(ds) ==
    IF ds = <<>> THEN 0
    ELSE 10 * parseInt(SubSeq(ds, 1, Len(ds) - 1)) + DigitVal(ds[Len(ds)])

\* description.replace(/\*\*/g, ''): every ** found scanning from the left
RECURSIVE removeBold(_)
removeBold(s) ==
    IF s = <<>> THEN <<>>
    ELSE IF Len(s) >= 2 /\ s[1] = "*" /\ s[2] = "*" THEN removeBold(SubSeq(s, 3, Len(s)))
    ELSE <<s[1]>> \o removeBold(Tail(s))

\* the description of a matched line: match[2].trim(), then the bold markers removed
describe(rest) == removeBold(trim(rest))

\* pushLine without the test of the match: a line that does not match pushes an item
pushLineUnguarded(acc, line) ==
    LET m == matchLine(line)
    IN  Append(acc, [position |-> parseInt(m.digits) - 1,
                     description |-> describe(m.rest)])

\* pushLine dropping a line whose position an earlier item already has
pushLineDeduplicated(acc, line) ==
    LET m == matchLine(line)
    IN  IF m.ok /\ \A n \in 1..Len(acc) : acc[n].position # parseInt(m.digits) - 1
        THEN Append(acc, [position |-> parseInt(m.digits) - 1,
                          description |-> describe(m.rest)])
        ELSE acc

\* pushLine keeping the positions inside the list: nothing below 0
pushLineClamped(acc, line) ==
    LET m == matchLine(line)
        p == parseInt(m.digits) - 1
    IN  IF m.ok
        THEN Append(acc, [position |-> IF p < 0 THEN 0 ELSE p,
                          description |-> describe(m.rest)])
        ELSE acc

\* the body of the loop over the lines: a matching line pushes one item
pushLine(acc, line) ==
    LET m == matchLine(line)
    IN  IF m.ok
        THEN Append(acc, [position |-> parseInt(m.digits) - 1,
                          description |-> describe(m.rest)])
        ELSE acc

RECURSIVE pushLines(_, _)
pushLines(acc, ls) ==
    IF ls = <<>> THEN acc ELSE pushLines(pushLine(acc, Head(ls)), Tail(ls))

lines(s) == filterNonBlank(split(s, 0, <<>>))

parseImageOrder(s) == pushLines(<<>>, lines(s))

(***************************************************************************)
(* parseResponse, with the marker list as a parameter.                     *)
(***************************************************************************)
\* parseResponseWith reading the image order from the whole text, not from what
\* follows the marker
parseResponseWholeText(s, ms) ==
    LET found == FindSplit(s, ms, 1, NoMatch)
    IN  IF found.index = -1
        THEN [splitIndex |-> -1, usedMarkerLength |-> 0, post |-> trim(s),
              imageOrderText |-> <<>>, imageOrder |-> <<>>]
        ELSE [splitIndex |-> found.index, usedMarkerLength |-> found.length,
              post |-> trim(StripRule(substring(s, 0, found.index))),
              imageOrderText |-> trim(s),
              imageOrder |-> parseImageOrder(trim(s))]

parseResponseWith(s, ms) ==
    LET found == FindSplit(s, ms, 1, NoMatch)
    IN  IF found.index = -1
        THEN [splitIndex |-> -1, usedMarkerLength |-> 0, post |-> trim(s),
              imageOrderText |-> <<>>, imageOrder |-> <<>>]
        ELSE LET rest == trim(substring(s, found.index + found.length, Len(s)))
             IN  [splitIndex |-> found.index, usedMarkerLength |-> found.length,
                  post |-> trim(StripRule(substring(s, 0, found.index))),
                  imageOrderText |-> rest,
                  imageOrder |-> parseImageOrder(rest)]

parseResponse(s) == parseResponseWith(s, markers)

(***************************************************************************)
(* The state machine: a raw response arrives, parseResponse is applied.    *)
(***************************************************************************)
\* the texts made of at most n of the given pieces
Flatten(cs) ==
    LET RECURSIVE F(_)
        F(k) == IF k > Len(cs) THEN <<>> ELSE cs[k] \o F(k + 1)
    IN  F(1)

\* what is not there yet: an answer, an outcome, a request, a response
Pending == [pending |-> TRUE]

\* no request is in flight
Idle == [pc |-> "idle", from |-> "nobody", body |-> Pending, response |-> Pending]

\* no generatePost invocation exists while a raw response is being parsed on its own
NoInvocations ==
    /\ env = [apiKey |-> TRUE, sdk |-> "ai-sdk", promptsReadable |-> TRUE]
    /\ inv = <<>>
    /\ calls = <<>>
    /\ http = Idle
    /\ browser = [page |-> "closed"]

InitWith(t) ==
    /\ NoInvocations
    /\ text = t
    /\ pc = "call"
    /\ splitIndex = -1
    /\ usedMarkerLength = 0
    /\ post = <<>>
    /\ imageOrderText = <<>>
    /\ imageOrder = <<>>

ParseResponse ==
    /\ pc = "call"
    /\ LET r == parseResponse(text)
       IN  /\ splitIndex' = r.splitIndex
           /\ usedMarkerLength' = r.usedMarkerLength
           /\ post' = r.post
           /\ imageOrderText' = r.imageOrderText
           /\ imageOrder' = r.imageOrder
    /\ pc' = "done"
    /\ UNCHANGED <<env, inv, calls, http, browser>>
    /\ UNCHANGED text

Next == ParseResponse

\* raw responses over the symbols that decide the split
MaxPieces == 4

Pieces ==
    { <<"a">>, <<" ">>, <<"\n">>, <<"-", "-", "-">>, <<"#">>,
      <<"SUGEROWANA", " ">>, <<"KOLEJNOSC ZDJEC:">>, <<"1", ".">> }

Init ==
    \E n \in 0..MaxPieces : \E cs \in [1..n -> Pieces] : InitWith(Flatten(cs))

Spec == Init /\ [][Next]_vars

\* raw responses that end with the heading and numbered lines: a post body, the
\* heading "## SUGEROWANA KOLEJNOSC ZDJEC:", then the lines 1, 2, ... one per item
MaxItems == 3

HEADING == <<"#", "#", " ", "SUGEROWANA", " ", "KOLEJNOSC ZDJEC:">>

Bodies ==
    { <<>>,
      <<"Oto", " ", "post...", "\n", "\n", "-", "-", "-", "\n", "\n">>,
      <<"-", "-", "-", "\n", "a", "\n">>,
      <<"#", " ", "Kolejnosc zdjec:", "\n", "1", ".", " ", "a", "\n", "\n">>,
      <<" ", "a", "-", "-", "-", " ">> }

LineForms ==
    { <<".", " ", "Hero", " ", "shot", " ", "pokoju">>,
      <<".", " ", "Biurko", " ", "z", " ", "bliska">>,
      <<".", " ", "Szafa">>,
      <<")", "*", "*", "a", "*", "*", " ", "-", " ", "b">>,
      <<":", " ", " ", "a", " ", "2", ".", " ", "b", " ">>,
      <<"-", "a">> }

Numerals == <<"1", "2", "3", "4", "5", "6", "7", "8", "9">>

NumberedLines(forms) ==
    LET RECURSIVE F(_)
        F(i) == IF i > Len(forms) THEN <<>>
                ELSE <<"\n", Numerals[i]>> \o forms[i] \o F(i + 1)
    IN  F(1)

InitScenario ==
    \E n \in 0..MaxItems : \E forms \in [1..n -> LineForms] :
        \E body \in Bodies : \E tail \in {<<>>, <<"\n">>} :
            InitWith(body \o HEADING \o NumberedLines(forms) \o tail)

SpecScenario == InitScenario /\ [][Next]_vars

\* raw responses whose photo-order section is a list of lines of a few shapes
MaxLines == 3

LineShapes ==
    { <<"1", ".", " ", "Description">>,
      <<"1", ")", " ", "Description">>,
      <<"Image", " ", "1", " ", "-", " ", "Description">>,
      <<"image", " ", "3", "-", "c">>,
      <<"2", ":", "b">>,
      <<"a", " ", "1", ".", " ", "b">>,
      <<"a">>,
      <<" ">> }

JoinLines(ls) ==
    LET RECURSIVE F(_)
        F(i) == IF i > Len(ls) THEN <<>> ELSE <<"\n">> \o ls[i] \o F(i + 1)
    IN  F(1)

InitOrder ==
    \E n \in 0..MaxLines : \E ls \in [1..n -> LineShapes] :
        InitWith(HEADING \o JoinLines(ls))

SpecOrder == InitOrder /\ [][Next]_vars

\* raw responses whose photo-order section is spelled symbol by symbol
MaxLinePieces == 4

LinePieces ==
    { <<"1", ".">>, <<"0", ".">>, <<"1">>, <<"0">>, <<" ">>, <<"a">>,
      <<"*", "*">>, <<"*">>, <<"\n">>, <<"Image", " ">> }

InitLine ==
    \E n \in 0..MaxLinePieces : \E cs \in [1..n -> LinePieces] :
        InitWith(HEADING \o <<"\n">> \o Flatten(cs))

SpecLine == InitLine /\ [][Next]_vars

(***************************************************************************)
(* generatePost, in its two builds: src/lib/ai-client.ts calls the provider *)
(* through generateText of the AI SDK ("ai-sdk"), src/unnamed/part_001      *)
(* through client.messages.create of the Anthropic SDK ("anthropic-sdk").   *)
(* env is process.env and the build; inv[i] is the i-th invocation: where   *)
(* it stands, its request, the provider's answer and what it returned or    *)
(* threw; calls[i] lists the payloads of the provider calls it issued.      *)
(***************************************************************************)
\* template literal `data:${file.type};base64,${file.data}`
fileDataToDataURL(file) == <<"data:", file.type, ";base64,", file.data>>

\* Buffer.from(pdf.data, 'base64'): the decoded bytes of a base64 string
BufferFromBase64(data) == [bytes |-> data]

imagePartAiSdk(img) == [type |-> "image", image |-> fileDataToDataURL(img)]

imageBlockAnthropic(img) ==
    [type |-> "image",
     source |-> [type |-> "base64", media_type |-> img.type, data |-> img.data]]

\* contentParts with the images in reverse order
contentPartsReversed(sdk, request) ==
    LET n == Len(request.images)
        rev == [k \in 1..n |-> request.images[n + 1 - k]]
    IN  IF sdk = "ai-sdk"
        THEN <<[type |-> "text", text |-> request.userPrompt],
               [type |-> "file", data |-> BufferFromBase64(request.pdf.data),
                mediaType |-> request.pdf.type]>>
             \o [k \in 1..Len(rev) |-> imagePartAiSdk(rev[k])]
        ELSE <<[type |-> "text", text |-> request.userPrompt],
               [type |-> "document",
                source |-> [type |-> "base64", media_type |-> request.pdf.type,
                            data |-> request.pdf.data]]>>
             \o [k \in 1..Len(rev) |-> imageBlockAnthropic(rev[k])]

\* the content array of the single user message
contentParts(sdk, request) ==
    IF sdk = "ai-sdk"
    THEN <<[type |-> "text", text |-> request.userPrompt],
           [type |-> "file", data |-> BufferFromBase64(request.pdf.data),
            mediaType |-> request.pdf.type]>>
         \o [k \in 1..Len(request.images) |-> imagePartAiSdk(request.images[k])]
    ELSE <<[type |-> "text", text |-> request.userPrompt],
           [type |-> "document",
            source |-> [type |-> "base64", media_type |-> request.pdf.type,
                        data |-> request.pdf.data]]>>
         \o [k \in 1..Len(request.images) |-> imageBlockAnthropic(request.images[k])]

\* the argument of generateText / client.messages.create
payload(sdk, request) ==
    [system |-> request.systemPrompt,
     messages |-> <<[role |-> "user", content |-> contentParts(sdk, request)]>>]

\* message.content.find(block => block.type === 'text'): its index or 0
findText(content) ==
    IF \E k \in 1..Len(content) : content[k].type = "text"
    THEN CHOOSE k \in 1..Len(content) :
            /\ content[k].type = "text"
            /\ \A j \in 1..(k - 1) : content[j].type # "text"
    ELSE 0

\* result.text of generateText: the text parts of the answer, joined
resultText(content) ==
    LET RECURSIVE J(_)
        J(k) == IF k > Len(content) THEN <<>>
                ELSE (IF content[k].type = "text" THEN content[k].text ELSE <<>>)
                     \o J(k + 1)
    IN  J(1)

usageOf(message) ==
    [promptTokens |-> message.usage.input_tokens,
     completionTokens |-> message.usage.output_tokens,
     totalTokens |-> message.usage.input_tokens + message.usage.output_tokens]

\* new Error(`Failed to generate post: ${error.message}`) of the catch block
FailedToGenerate(message) == [error |-> <<"Failed to generate post: ", message>>]

NoApiKey == [error |-> <<"ANTHROPIC_API_KEY is not set in environment variables">>]

\* what generatePost does with the provider's answer
returned(sdk, message) ==
    IF sdk = "anthropic-sdk" /\ findText(message.content) = 0
    THEN [pc |-> "threw", outcome |-> FailedToGenerate("No text response from Claude")]
    ELSE LET t == IF sdk = "anthropic-sdk"
                  THEN message.content[findText(message.content)].text
                  ELSE resultText(message.content)
             r == parseResponse(t)
         IN  [pc |-> "returned",
              outcome |-> [post |-> r.post, imageOrder |-> r.imageOrder,
                           usage |-> usageOf(message)]]

\* what generatePost does when the provider call throws
thrown(error) ==
    [pc |-> "threw",
     outcome |-> IF error.isError THEN FailedToGenerate(error.message)
                 ELSE FailedToGenerate("Unknown error")]

\* generatePost calling the provider before it looks at the key
EnterUnchecked(i) ==
    /\ i \in DOMAIN inv
    /\ inv[i].pc = "start"
    /\ inv' = [inv EXCEPT ![i].pc = "awaiting"]
    /\ calls' = [calls EXCEPT ![i] = Append(@, payload(env.sdk, inv[i].request))]
    /\ UNCHANGED <<text, pc, splitIndex, usedMarkerLength, post, imageOrderText,
                   imageOrder, env, http, browser>>

\* generatePost up to its await: the key check, the payload, the provider call
Enter(i) ==
    /\ i \in DOMAIN inv
    /\ inv[i].pc = "start"
    /\ IF ~env.apiKey
       THEN /\ inv' = [inv EXCEPT ![i].pc = "threw", ![i].outcome = NoApiKey]
            /\ UNCHANGED calls
       ELSE /\ inv' = [inv EXCEPT ![i].pc = "awaiting"]
            /\ calls' = [calls EXCEPT ![i] = Append(@, payload(env.sdk, inv[i].request))]
    /\ UNCHANGED <<text, pc, splitIndex, usedMarkerLength, post, imageOrderText,
                   imageOrder, env, http, browser>>

\* The provider call resolves with message: generatePost parses and returns
\* (or throws for an answer without text), with the answer of any invocation
\* that was waiting
ResolveShared(i, message) ==
    /\ i \in DOMAIN inv
    /\ inv[i].pc = "awaiting"
    /\ inv' = [j \in DOMAIN inv |->
                  IF inv[j].pc = "awaiting"
                  THEN [inv[j] EXCEPT !.pc = returned(env.sdk, message).pc,
                                      !.answer = [resolved |-> message],
                                      !.outcome = returned(env.sdk, message).outcome]
                  ELSE inv[j]]
    /\ UNCHANGED <<text, pc, splitIndex, usedMarkerLength, post, imageOrderText,
                   imageOrder, env, calls, http, browser>>

\* The provider call resolves with message: generatePost parses and returns
\* (or throws for an answer without text)
Resolve(i, message) ==
    /\ i \in DOMAIN inv
    /\ inv[i].pc = "awaiting"
    /\ inv' = [inv EXCEPT ![i].pc = returned(env.sdk, message).pc,
                          ![i].answer = [resolved |-> message],
                          ![i].outcome = returned(env.sdk, message).outcome]
    /\ UNCHANGED <<text, pc, splitIndex, usedMarkerLength, post, imageOrderText,
                   imageOrder, env, calls, http, browser>>

\* The provider call rejects and generatePost calls the provider once more
RejectRetry(i, error) ==
    /\ i \in DOMAIN inv
    /\ inv[i].pc = "awaiting"
    /\ IF Len(calls[i]) < 2
       THEN /\ inv' = [inv EXCEPT ![i].answer = [rejected |-> error]]
            /\ calls' = [calls EXCEPT ![i] = Append(@, payload(env.sdk, inv[i].request))]
       ELSE /\ inv' = [inv EXCEPT ![i].pc = thrown(error).pc,
                                  ![i].answer = [rejected |-> error],
                                  ![i].outcome = thrown(error).outcome]
            /\ UNCHANGED calls
    /\ UNCHANGED <<text, pc, splitIndex, usedMarkerLength, post, imageOrderText,
                   imageOrder, env, http, browser>>

\* The provider call rejects: the catch block rethrows
Reject(i, error) ==
    /\ i \in DOMAIN inv
    /\ inv[i].pc = "awaiting"
    /\ inv' = [inv EXCEPT ![i].pc = thrown(error).pc,
                          ![i].answer = [rejected |-> error],
                          ![i].outcome = thrown(error).outcome]
    /\ UNCHANGED calls
    /\ UNCHANGED <<text, pc, splitIndex, usedMarkerLength, post, imageOrderText,
                   imageOrder, env, http, browser>>

\* the parser variables while generatePost runs: parseResponse is applied to the
\* provider's text inside Resolve
ParserUnused ==
    /\ text = <<>>
    /\ pc = "unused"
    /\ splitIndex = -1
    /\ usedMarkerLength = 0
    /\ post = <<>>
    /\ imageOrderText = <<>>
    /\ imageOrder = <<>>

\* concurrent invocations and the size of their requests
MaxInvocations == 2

MaxRequestImages == 2

FileDataOf(kind, k, type) ==
    [name |-> <<kind, k>>, type |-> type, data |-> <<"base64 of ", kind, k>>]

\* a request with n images; the types and the prompts vary with n
Request(n) ==
    LET v == (n % 2) + 1
    IN
    [pdf |-> FileDataOf("pdf", v, IF v = 1 THEN "application/pdf" ELSE "application/octet-stream"),
     images |-> [k \in 1..n |->
                    FileDataOf("image", k, IF (k + v) % 2 = 0 THEN "image/jpeg" ELSE "image/png")],
     systemPrompt |-> <<"system prompt", v>>,
     userPrompt |-> <<"user prompt", v>>]

Requests == { Request(n) : n \in 0..MaxRequestImages }

\* what the provider may answer: a content without text block, a plain text,
\* a text with the photo-order heading after a non-text block
Usage == [input_tokens |-> 7, output_tokens |-> 5]

ProviderMessages ==
    { [content |-> <<[type |-> "tool_use"]>>, usage |-> Usage],
      [content |-> <<[type |-> "text", text |-> <<"a">>]>>, usage |-> Usage],
      [content |-> <<[type |-> "tool_use"],
                     [type |-> "text",
                      text |-> <<"a", "\n">> \o HEADING \o <<"\n", "1", ".", " ", "b">>]>>,
       usage |-> Usage] }

\* what the provider call may throw: an Error with a message, or another value
ProviderErrors ==
    { [isError |-> TRUE, message |-> "Overloaded"],
      [isError |-> FALSE, message |-> "a thrown string"] }

Started(request) ==
    [pc |-> "start", request |-> request, answer |-> Pending, outcome |-> Pending]

InitGenerate ==
    /\ ParserUnused
    /\ env \in [apiKey : BOOLEAN, sdk : {"ai-sdk", "anthropic-sdk"}, promptsReadable : {TRUE}]
    /\ http = Idle
    /\ browser = [page |-> "closed"]
    /\ \E n \in 1..MaxInvocations : \E rs \in [1..n -> Requests] :
          /\ inv = [i \in 1..n |-> Started(rs[i])]
          /\ calls = [i \in 1..n |-> <<>>]

NextGenerate ==
    \E i \in 1..MaxInvocations :
        \/ Enter(i)
        \/ \E message \in ProviderMessages : Resolve(i, message)
        \/ \E error \in ProviderErrors : Reject(i, error)

SpecGenerate == InitGenerate /\ [][NextGenerate]_vars

\* the provider call of invocation i settles: it resolves or rejects
Settle(i) ==
    \/ \E message \in ProviderMessages : Resolve(i, message)
    \/ \E error \in ProviderErrors : Reject(i, error)

\* The event loop runs every invocation that was called, and the provider
\* settles every call but those of the first invocation, which may hang for ever
SpecGenerateHang ==
    /\ InitGenerate
    /\ [][NextGenerate]_vars
    /\ \A i \in 2..MaxInvocations : WF_vars(Enter(i)) /\ WF_vars(Settle(i))

(***************************************************************************)
(* The route POST /api/generate-post, the generate page and the result     *)
(* page.  http is the request in flight: who sent it, its JSON body and    *)
(* the route's response.  browser is the page the user has open, the       *)
(* page's state and sessionStorage.                                        *)
(***************************************************************************)
\* GeneratePostSchema.safeParse(body): the issues it reports for images .min(2)
issuesMinTwo(body) ==
    (IF Len(body.images) < 2 THEN {"images: too_small"} ELSE {})
    \cup (IF Len(body.images) > 10 THEN {"images: too_big"} ELSE {})
    \cup (IF body.postType \notin {"fb-ig", "fb-group"}
          THEN {"postType: invalid_enum_value"} ELSE {})
    \cup (IF body.projectType \notin {"mroomygo", "premium", "premium-plus"}
          THEN {"projectType: invalid_enum_value"} ELSE {})

\* GeneratePostSchema.safeParse(body): the issues it reports (none: success)
issues(body) ==
    (IF Len(body.images) < 3 THEN {"images: too_small"} ELSE {})
    \cup (IF Len(body.images) > 10 THEN {"images: too_big"} ELSE {})
    \cup (IF body.postType \notin {"fb-ig", "fb-group"}
          THEN {"postType: invalid_enum_value"} ELSE {})
    \cup (IF body.projectType \notin {"mroomygo", "premium", "premium-plus"}
          THEN {"projectType: invalid_enum_value"} ELSE {})

\* `${basePrompt}\n\n---\n\n${projectContext}`, basePrompt read from <postType>.txt
buildSystemPrompt(postType, projectType) ==
    <<"contents of ", postType, ".txt", "\n\n---\n\n", "## TYP PROJEKTU: ", projectType>>

buildUserPrompt(projectType) == <<"Przeanalizuj ... Typ projektu: ", projectType>>

\* loadPrompt's throw when the prompt file cannot be read
FailedToLoadPrompt(postType) == <<"Failed to load prompt: ", postType, ".txt">>

\* NextResponse.json(json, { status })
NextResponseJson(json, status) == [status |-> status, json |-> json]

\* The route handler up to its call of generatePost: validation, then the prompts
POST ==
    /\ http.pc = "sent"
    /\ LET body == http.body
       IN  IF issues(body) # {}
           THEN /\ http' = [http EXCEPT
                       !.pc = "responded",
                       !.response = NextResponseJson(
                           [error |-> "Invalid request data", details |-> issues(body)],
                           400)]
                /\ UNCHANGED <<inv, calls>>
           ELSE IF ~env.promptsReadable
           THEN /\ http' = [http EXCEPT
                       !.pc = "responded",
                       !.response = NextResponseJson(
                           [error |-> "Failed to generate post",
                            message |-> FailedToLoadPrompt(body.postType)],
                           500)]
                /\ UNCHANGED <<inv, calls>>
           ELSE /\ http' = [http EXCEPT !.pc = "generating"]
                /\ inv' = <<Started([pdf |-> body.pdf,
                                     images |-> body.images,
                                     systemPrompt |-> buildSystemPrompt(body.postType,
                                                                        body.projectType),
                                     userPrompt |-> buildUserPrompt(body.projectType)])>>
                /\ calls' = << <<>> >>
    /\ UNCHANGED <<text, pc, splitIndex, usedMarkerLength, post, imageOrderText,
                   imageOrder, env, browser>>

\* The route handler after generatePost returned or threw: the JSON it answers
POSTReturn ==
    /\ http.pc = "generating"
    /\ inv[1].pc \in {"returned", "threw"}
    /\ http' = [http EXCEPT
           !.pc = "responded",
           !.response =
               IF inv[1].pc = "returned"
               THEN NextResponseJson(
                        [success |-> TRUE,
                         post |-> inv[1].outcome.post,
                         usage |-> inv[1].outcome.usage,
                         metadata |-> [postType |-> http.body.postType,
                                       projectType |-> http.body.projectType,
                                       imageCount |-> Len(http.body.images),
                                       generatedAt |-> "now on the server"]],
                        200)
               ELSE NextResponseJson(
                        [error |-> "Failed to generate post",
                         message |-> inv[1].outcome.error],
                        500)]
    /\ UNCHANGED <<text, pc, splitIndex, usedMarkerLength, post, imageOrderText,
                   imageOrder, env, inv, calls, browser>>

\* useState<File | null>(null)
NoFile == [name |-> "", type |-> "", size |-> -1]

\* validatePdf without the test of the type
validatePdfAnyType(file) ==
    IF file.size > 10 * 1024 * 1024
    THEN [valid |-> FALSE, error |-> "Plik PDF nie moze byc wiekszy niz 10MB"]
    ELSE [valid |-> TRUE, error |-> ""]

validatePdf(file) ==
    IF file.type # "application/pdf"
    THEN [valid |-> FALSE, error |-> "Plik musi byc w formacie PDF"]
    ELSE IF file.size > 10 * 1024 * 1024
    THEN [valid |-> FALSE, error |-> "Plik PDF nie moze byc wiekszy niz 10MB"]
    ELSE [valid |-> TRUE, error |-> ""]

validateImages(files) ==
    IF Len(files) < 3
    THEN [valid |-> FALSE, error |-> "Musisz dodac minimum 3 zdjecia"]
    ELSE IF Len(files) > 10
    THEN [valid |-> FALSE, error |-> "Mozesz dodac maksymalnie 10 zdjec"]
    ELSE IF \E k \in 1..Len(files) :
                files[k].type \notin {"image/jpeg", "image/png", "image/jpg"}
    THEN [valid |-> FALSE, error |-> "Wszystkie pliki musza byc w formacie JPG lub PNG"]
    ELSE IF \E k \in 1..Len(files) : files[k].size > 5 * 1024 * 1024
    THEN [valid |-> FALSE, error |-> "Kazde zdjecie nie moze byc wieksze niz 5MB"]
    ELSE [valid |-> TRUE, error |-> ""]

\* the test of fileToFileData that sends a file through compressImage
passedToCompressImage(file) == file.type \in {"image/jpeg", "image/png", "image/jpg"}

\* compressImage resolves with new File([blob], file.name, {type: 'image/jpeg'})
compressImage(file) == [name |-> file.name, type |-> "image/jpeg", size |-> file.size]

\* fileToBase64 of a file that can be read
fileToBase64(file) == <<"base64 of ", file.name, file.type>>

\* fileToFileData: an image is compressed to a JPEG of the same name, or kept as it
\* is when compressImage rejects; then the file is read as base64
fileToFileData(file, compressed) ==
    LET processedFile ==
            IF passedToCompressImage(file) /\ compressed THEN compressImage(file) ELSE file
    IN  [name |-> processedFile.name,
         type |-> processedFile.type,
         data |-> fileToBase64(processedFile)]

\* the Generate button staying enabled while a generation runs
ButtonDisabledForFilesOnly == browser.pdfFile = NoFile \/ Len(browser.images) < 3

\* the Generate button: disabled={!pdfFile || images.length < 3 || isGenerating}
ButtonDisabled ==
    browser.pdfFile = NoFile \/ Len(browser.images) < 3 \/ browser.isGenerating

\* A click on the Generate button: handleGenerate up to its first await, the
\* guard, the two validators and setIsGenerating(true)
HandleGenerate ==
    /\ browser.page = "/generate"
    /\ ~ButtonDisabled
    /\ IF browser.pdfFile = NoFile \/ Len(browser.images) < 3
       THEN browser' = [browser EXCEPT !.toast = "Dodaj ankiete PDF i minimum 3 zdjecia"]
       ELSE IF ~validatePdf(browser.pdfFile).valid
       THEN browser' = [browser EXCEPT !.toast = validatePdf(browser.pdfFile).error]
       ELSE IF ~validateImages(browser.images).valid
       THEN browser' = [browser EXCEPT !.toast = validateImages(browser.images).error]
       ELSE browser' = [browser EXCEPT !.isGenerating = TRUE,
                                       !.handler = "converting",
                                       !.runs = @ + 1]
    /\ UNCHANGED <<text, pc, splitIndex, usedMarkerLength, post, imageOrderText,
                   imageOrder, env, inv, calls, http>>

\* ConvertFiles with a fileToFileData that rejects when compressImage rejects
ConvertFilesFailOnCompression(conversion) ==
    /\ browser.page = "/generate"
    /\ browser.handler = "converting"
    /\ IF conversion \in {"unreadable", "original"}
       THEN /\ browser' = [browser EXCEPT !.toast = "Failed to compress image",
                                          !.conversion = conversion,
                                          !.isGenerating = FALSE,
                                          !.handler = "idle",
                                          !.runs = @ - 1]
            /\ UNCHANGED http
       ELSE /\ browser' = [browser EXCEPT !.handler = "fetching",
                                          !.conversion = conversion]
            /\ http' = [pc |-> "sent",
                        from |-> "page",
                        response |-> Pending,
                        body |-> [pdf |-> fileToFileData(browser.pdfFile, TRUE),
                                  images |-> [k \in 1..Len(browser.images) |->
                                                 fileToFileData(browser.images[k], TRUE)],
                                  postType |-> browser.postType,
                                  projectType |-> browser.selectedType]]
    /\ UNCHANGED <<text, pc, splitIndex, usedMarkerLength, post, imageOrderText,
                   imageOrder, env, inv, calls>>

\* handleGenerate from the file conversion to its fetch. conversion says how the
\* files convert: compressed, kept as they are because compressImage rejects, or
\* unreadable (fileToBase64 rejects: catch, then finally)
ConvertFiles(conversion) ==
    /\ browser.page = "/generate"
    /\ browser.handler = "converting"
    /\ IF conversion = "unreadable"
       THEN /\ browser' = [browser EXCEPT !.toast = "Failed to read file",
                                          !.conversion = conversion,
                                          !.isGenerating = FALSE,
                                          !.handler = "idle",
                                          !.runs = @ - 1]
            /\ UNCHANGED http
       ELSE /\ browser' = [browser EXCEPT !.handler = "fetching",
                                          !.conversion = conversion]
            /\ http' = [pc |-> "sent",
                        from |-> "page",
                        response |-> Pending,
                        body |-> [pdf |-> fileToFileData(browser.pdfFile,
                                                         conversion = "compressed"),
                                  images |-> [k \in 1..Len(browser.images) |->
                                                 fileToFileData(browser.images[k],
                                                                conversion = "compressed")],
                                  postType |-> browser.postType,
                                  projectType |-> browser.selectedType]]
    /\ UNCHANGED <<text, pc, splitIndex, usedMarkerLength, post, imageOrderText,
                   imageOrder, env, inv, calls>>

\* fetch rejects: the request did not reach the route (catch, then finally)
NetworkError ==
    /\ http.pc = "sent"
    /\ http.from = "page"
    /\ browser.handler = "fetching"
    /\ http' = [http EXCEPT !.pc = "lost"]
    /\ browser' = [browser EXCEPT !.toast = "Failed to fetch",
                                  !.isGenerating = FALSE,
                                  !.handler = "idle",
                                  !.runs = @ - 1]
    /\ UNCHANGED <<text, pc, splitIndex, usedMarkerLength, post, imageOrderText,
                   imageOrder, env, inv, calls>>

\* JSON.stringify of a plain record, and JSON.parse of what it gives
JSONstringify(value) == <<"JSON", value>>

JSONparse(string) == string[2]

\* the record handleGenerate stores under 'generatedPost'
generatedPost(data) ==
    [post |-> data.post,
     postType |-> browser.postType,
     projectType |-> browser.selectedType,
     thumbnails |-> [k \in 1..Len(browser.images) |->
                        <<"thumbnail of ", browser.images[k].name>>],
     generatedAt |-> data.metadata.generatedAt]

\* handleGenerate writing the session record before it looks at response.ok
HandleResponseStoreFirst(thumbnails) ==
    /\ http.pc = "responded"
    /\ http.from = "page"
    /\ browser.handler = "fetching"
    /\ http' = [http EXCEPT !.pc = "consumed"]
    /\ LET data == http.response.json
           stored == [generatedPost |-> JSONstringify(
                         [post |-> IF "post" \in DOMAIN data THEN data.post ELSE Pending,
                          postType |-> browser.postType,
                          projectType |-> browser.selectedType,
                          thumbnails |-> <<>>,
                          generatedAt |-> "now in the browser"])]
       IN  IF http.response.status \notin 200..299
           THEN browser' = [browser EXCEPT !.sessionStorage = stored,
                                           !.toast = data.error,
                                           !.isGenerating = FALSE,
                                           !.handler = "idle",
                                           !.runs = @ - 1]
           ELSE browser' = [browser EXCEPT !.sessionStorage = stored,
                                           !.toast = "Post wygenerowany!",
                                           !.page = "/result",
                                           !.isGenerating = FALSE,
                                           !.handler = "idle",
                                           !.runs = @ - 1]
    /\ UNCHANGED <<text, pc, splitIndex, usedMarkerLength, post, imageOrderText,
                   imageOrder, env, inv, calls>>

\* handleGenerate leaving isGenerating set when the response is not OK
HandleResponseNoFinally(thumbnails) ==
    /\ http.pc = "responded"
    /\ http.from = "page"
    /\ browser.handler = "fetching"
    /\ http' = [http EXCEPT !.pc = "consumed"]
    /\ LET data == http.response.json
       IN  IF http.response.status \notin 200..299
           THEN browser' = [browser EXCEPT !.toast = data.error,
                                           !.handler = "idle",
                                           !.runs = @ - 1]
           ELSE IF thumbnails = "unreadable"
           THEN browser' = [browser EXCEPT !.toast = "Failed to read file",
                                           !.isGenerating = FALSE,
                                           !.handler = "idle",
                                           !.runs = @ - 1]
           ELSE browser' = [browser EXCEPT
                    !.sessionStorage =
                        [generatedPost |-> JSONstringify(generatedPost(data))],
                    !.toast = "Post wygenerowany!",
                    !.page = "/result",
                    !.isGenerating = FALSE,
                    !.handler = "idle",
                    !.runs = @ - 1]
    /\ UNCHANGED <<text, pc, splitIndex, usedMarkerLength, post, imageOrderText,
                   imageOrder, env, inv, calls>>

\* handleGenerate after its fetch resolved: the response, the thumbnails, the
\* session record, the navigation; finally resets isGenerating in every case
HandleResponse(thumbnails) ==
    /\ http.pc = "responded"
    /\ http.from = "page"
    /\ browser.handler = "fetching"
    /\ http' = [http EXCEPT !.pc = "consumed"]
    /\ LET data == http.response.json
       IN  IF http.response.status \notin 200..299
           THEN browser' = [browser EXCEPT !.toast = data.error,
                                           !.isGenerating = FALSE,
                                           !.handler = "idle",
                                           !.runs = @ - 1]
           ELSE IF thumbnails = "unreadable"
           THEN browser' = [browser EXCEPT !.toast = "Failed to read file",
                                           !.isGenerating = FALSE,
                                           !.handler = "idle",
                                           !.runs = @ - 1]
           ELSE browser' = [browser EXCEPT
                    !.sessionStorage =
                        [generatedPost |-> JSONstringify(generatedPost(data))],
                    !.toast = "Post wygenerowany!",
                    !.page = "/result",
                    !.isGenerating = FALSE,
                    !.handler = "idle",
                    !.runs = @ - 1]
    /\ UNCHANGED <<text, pc, splitIndex, usedMarkerLength, post, imageOrderText,
                   imageOrder, env, inv, calls>>

\* The result page mounts: the effect loads the session record, and the page
\* renders the photo order from result.imageOrder.length
ResultPage ==
    /\ browser.page = "/result"
    /\ browser.render = "loading"
    /\ IF "generatedPost" \notin DOMAIN browser.sessionStorage
       THEN browser' = [browser EXCEPT !.page = "/"]
       ELSE LET data == JSONparse(browser.sessionStorage.generatedPost)
            IN  browser' = [browser EXCEPT
                    !.result = data,
                    !.render = IF "imageOrder" \in DOMAIN data
                               THEN "rendered"
                               ELSE "TypeError: reading 'length' of undefined"]
    /\ UNCHANGED <<text, pc, splitIndex, usedMarkerLength, post, imageOrderText,
                   imageOrder, env, inv, calls, http>>

\* the number of files a user selects, or another client posts
MaxUploads == 11

\* n selected images; flavour makes the last one a GIF or one byte too large
Images(n, flavour) ==
    [k \in 1..n |->
        [name |-> <<"image", k>>,
         type |-> IF k = n /\ flavour = "gif" THEN "image/gif"
                  ELSE IF k % 2 = 0 THEN "image/png" ELSE "image/jpeg",
         size |-> IF k = n /\ flavour = "large" THEN 5 * 1024 * 1024 + 1
                  ELSE 5 * 1024 * 1024]]

PdfFiles ==
    { NoFile,
      [name |-> "ankieta.pdf", type |-> "application/pdf", size |-> 10 * 1024 * 1024],
      [name |-> "ankieta.pdf", type |-> "application/pdf", size |-> 10 * 1024 * 1024 + 1],
      [name |-> "ankieta.docx", type |-> "application/msword", size |-> 1024] }

Environments ==
    [apiKey : BOOLEAN, sdk : {"ai-sdk", "anthropic-sdk"}, promptsReadable : BOOLEAN]

\* the generate page with a selection of files, or the result page opened directly
Page(pdfFile, images) ==
    [page |-> "/generate", postType |-> "fb-ig", selectedType |-> "mroomygo",
     pdfFile |-> pdfFile, images |-> images, isGenerating |-> FALSE, toast |-> "",
     handler |-> "idle", runs |-> 0, conversion |-> "none",
     sessionStorage |-> <<>>, result |-> Pending, render |-> "loading"]

\* what sessionStorage holds when the page opens: nothing, or an earlier result
SessionStorages ==
    { <<>>,
      [generatedPost |-> JSONstringify(
          [post |-> <<"an earlier post">>, postType |-> "fb-group",
           projectType |-> "premium", thumbnails |-> <<>>,
           generatedAt |-> "earlier"])] }

InitPage ==
    /\ http = Idle
    /\ \E n \in 0..MaxUploads : \E flavour \in {"fine", "gif", "large"} :
       \E pdfFile \in PdfFiles : \E page \in {"/generate", "/result"} :
       \E stored \in SessionStorages :
          browser = [Page(pdfFile, Images(n, flavour)) EXCEPT
                        !.page = page, !.sessionStorage = stored]

\* a request posted by another client than the page: any number of images
InitRequest ==
    /\ browser = [page |-> "closed"]
    /\ \E n \in 0..MaxUploads : \E postType \in {"fb-group", "tiktok"} :
          http = [pc |-> "sent",
                  from |-> "other",
                  response |-> Pending,
                  body |-> [pdf |-> FileDataOf("pdf", 1, "application/pdf"),
                            images |-> [k \in 1..n |-> FileDataOf("image", k, "image/png")],
                            postType |-> postType,
                            projectType |-> "premium"]]

InitApp ==
    /\ ParserUnused
    /\ env \in Environments
    /\ inv = <<>>
    /\ calls = <<>>
    /\ (InitPage \/ InitRequest)

NextApp ==
    \/ HandleGenerate
    \/ \E conversion \in {"compressed", "original", "unreadable"} : ConvertFiles(conversion)
    \/ NetworkError
    \/ POST
    \/ Enter(1)
    \/ \E message \in ProviderMessages : Resolve(1, message)
    \/ \E error \in ProviderErrors : Reject(1, error)
    \/ POSTReturn
    \/ \E thumbnails \in {"made", "unreadable"} : HandleResponse(thumbnails)
    \/ ResultPage

SpecApp == InitApp /\ [][NextApp]_vars

\* The request completes: the browser runs the continuation of every await of
\* handleGenerate that has settled (the file conversion, the fetch once the route
\* has answered), the route handles a request that reached it, and the provider
\* settles the call
SpecAppFair ==
    /\ InitApp
    /\ [][NextApp]_vars
    /\ WF_vars(POST)
    /\ WF_vars(Enter(1))
    /\ WF_vars(Settle(1))
    /\ WF_vars(POSTReturn)
    /\ WF_vars(\E conversion \in {"compressed", "original", "unreadable"} :
                  ConvertFiles(conversion))
    /\ WF_vars(\E thumbnails \in {"made", "unreadable"} : HandleResponse(thumbnails))

(***************************************************************************)
(* The prompts page (src/app/prompts/page.tsx): the list of prompts, the   *)
(* editor opened on one of them, and handleSave, which posts the edited    *)
(* text and continues when the fetch has settled.  A text is a sequence of *)
(* letters.                                                                *)
(***************************************************************************)
MaxPromptLen == 1

PromptTexts == UNION { [1..n -> {"a", "b"}] : n \in 0..MaxPromptLen }

\* editingPrompt === null
NoPrompt == "null"

Filenames == <<"fb-ig.txt", "fb-group.txt">>

\* the list loadPrompts sets from the two answers
LoadedPrompts(fbIg, fbGroup) ==
    << [filename |-> "fb-ig.txt", content |-> fbIg,
        title |-> "Prompt Facebook / Instagram"],
       [filename |-> "fb-group.txt", content |-> fbGroup,
        title |-> "Prompt Grupa Facebook"] >>

\* the state of PromptsPage after construction; saving holds what the running
\* handleSave has closed over (the values of the render it was clicked in)
PromptsPage ==
    [page |-> "/prompts", prompts |-> <<>>, editingPrompt |-> NoPrompt,
     tempPrompt |-> <<>>, isLoading |-> TRUE, isSaving |-> FALSE,
     toast |-> "none", saving |-> Pending]

\* loadPrompts, run once by the effect: both prompts fetched, or a failure
LoadPrompts(loaded) ==
    /\ browser.page = "/prompts"
    /\ browser.isLoading
    /\ \/ /\ loaded
          /\ \E fbIg \in PromptTexts : \E fbGroup \in PromptTexts :
                browser' = [browser EXCEPT !.prompts = LoadedPrompts(fbIg, fbGroup),
                                           !.isLoading = FALSE]
       \/ /\ ~loaded
          /\ browser' = [browser EXCEPT !.toast = "Nie udalo sie zaladowac promptow",
                                        !.isLoading = FALSE]
    /\ UNCHANGED <<text, pc, splitIndex, usedMarkerLength, post, imageOrderText,
                   imageOrder, env, inv, calls, http>>

\* the card of the prompt at index k shows the editor, not the Edit button
EditorShown(k) ==
    /\ ~browser.isLoading
    /\ k \in 1..Len(browser.prompts)
    /\ browser.editingPrompt = browser.prompts[k].filename

\* A click on Edit of the prompt at index k: the button is rendered on every
\* card but the edited one, whether a save is under way or not
HandleEdit(k) ==
    /\ browser.page = "/prompts"
    /\ ~browser.isLoading
    /\ k \in 1..Len(browser.prompts)
    /\ ~EditorShown(k)
    /\ browser' = [browser EXCEPT !.editingPrompt = browser.prompts[k].filename,
                                  !.tempPrompt = browser.prompts[k].content]
    /\ UNCHANGED <<text, pc, splitIndex, usedMarkerLength, post, imageOrderText,
                   imageOrder, env, inv, calls, http>>

\* the textarea, Save and Cancel: disabled={isSaving}
EditorDisabled == browser.isSaving

\* typing in the textarea: onChange sets tempPrompt
ChangeText(value) ==
    /\ browser.page = "/prompts"
    /\ \E k \in 1..Len(browser.prompts) : EditorShown(k)
    /\ ~EditorDisabled
    /\ browser' = [browser EXCEPT !.tempPrompt = value]
    /\ UNCHANGED <<text, pc, splitIndex, usedMarkerLength, post, imageOrderText,
                   imageOrder, env, inv, calls, http>>

\* A click on Save: handleSave up to its await
HandleSave ==
    /\ browser.page = "/prompts"
    /\ \E k \in 1..Len(browser.prompts) : EditorShown(k)
    /\ ~EditorDisabled
    /\ browser.editingPrompt # NoPrompt
    /\ browser' = [browser EXCEPT !.isSaving = TRUE,
                                  !.saving = [prompts |-> browser.prompts,
                                              editingPrompt |-> browser.editingPrompt,
                                              tempPrompt |-> browser.tempPrompt]]
    /\ http' = [pc |-> "sent",
                from |-> "/prompts",
                response |-> Pending,
                body |-> [url |-> <<"/api/prompts/", browser.editingPrompt>>,
                          method |-> "POST",
                          body |-> JSONstringify([content |-> browser.tempPrompt])]]
    /\ UNCHANGED <<text, pc, splitIndex, usedMarkerLength, post, imageOrderText,
                   imageOrder, env, inv, calls>>

\* what the fetch of handleSave can settle with: an OK answer, an answer that
\* is not OK with a JSON body (with or without an error field) or with a body
\* that is no JSON, and a rejection
SaveResponses ==
    { [settled |-> "resolved", ok |-> TRUE, status |-> 200, parses |-> TRUE,
       json |-> [success |-> TRUE]],
      [settled |-> "resolved", ok |-> FALSE, status |-> 500, parses |-> TRUE,
       json |-> [error |-> "Failed to save prompt file"]],
      [settled |-> "resolved", ok |-> FALSE, status |-> 400, parses |-> TRUE,
       json |-> [details |-> "none"]],
      [settled |-> "resolved", ok |-> FALSE, status |-> 404, parses |-> FALSE,
       json |-> Pending],
      [settled |-> "rejected", ok |-> FALSE, status |-> 0, parses |-> FALSE,
       json |-> Pending] }

\* the message of the error handleSave catches
saveError(response) ==
    IF response.settled = "rejected" THEN "Failed to fetch"
    ELSE IF ~response.parses THEN "Unexpected token"
    ELSE IF "error" \in DOMAIN response.json THEN response.json.error
    ELSE "Failed to save prompt"

\* handleSave that updates the list before it looks at response.ok
HandleSaveSettledUpdateFirst(response) ==
    /\ browser.page = "/prompts"
    /\ browser.saving # Pending
    /\ http.pc = "sent"
    /\ http.from = "/prompts"
    /\ http' = [http EXCEPT !.pc = "consumed", !.response = response]
    /\ LET closed == browser.saving
           updated == [k \in 1..Len(closed.prompts) |->
                          IF closed.prompts[k].filename = closed.editingPrompt
                          THEN [closed.prompts[k] EXCEPT !.content = closed.tempPrompt]
                          ELSE closed.prompts[k]]
       IN  IF response.ok
           THEN browser' = [browser EXCEPT !.prompts = updated,
                                           !.editingPrompt = NoPrompt,
                                           !.toast = "Prompt zapisany!",
                                           !.isSaving = FALSE,
                                           !.saving = Pending]
           ELSE browser' = [browser EXCEPT !.prompts = updated,
                                           !.toast = saveError(response),
                                           !.isSaving = FALSE,
                                           !.saving = Pending]
    /\ UNCHANGED <<text, pc, splitIndex, usedMarkerLength, post, imageOrderText,
                   imageOrder, env, inv, calls>>

\* handleSave from its await on: the fetch has settled with response; the
\* state setters get the values the handler closed over
HandleSaveSettled(response) ==
    /\ browser.page = "/prompts"
    /\ browser.saving # Pending
    /\ http.pc = "sent"
    /\ http.from = "/prompts"
    /\ http' = [http EXCEPT !.pc = "consumed", !.response = response]
    /\ LET closed == browser.saving
           updated == [k \in 1..Len(closed.prompts) |->
                          IF closed.prompts[k].filename = closed.editingPrompt
                          THEN [closed.prompts[k] EXCEPT !.content = closed.tempPrompt]
                          ELSE closed.prompts[k]]
       IN  IF response.ok
           THEN browser' = [browser EXCEPT !.prompts = updated,
                                           !.editingPrompt = NoPrompt,
                                           !.toast = "Prompt zapisany!",
                                           !.isSaving = FALSE,
                                           !.saving = Pending]
           ELSE browser' = [browser EXCEPT !.toast = saveError(response),
                                           !.isSaving = FALSE,
                                           !.saving = Pending]
    /\ UNCHANGED <<text, pc, splitIndex, usedMarkerLength, post, imageOrderText,
                   imageOrder, env, inv, calls>>

\* A click on Cancel
HandleCancel ==
    /\ browser.page = "/prompts"
    /\ \E k \in 1..Len(browser.prompts) : EditorShown(k)
    /\ ~EditorDisabled
    /\ browser' = [browser EXCEPT !.editingPrompt = NoPrompt, !.tempPrompt = <<>>]
    /\ UNCHANGED <<text, pc, splitIndex, usedMarkerLength, post, imageOrderText,
                   imageOrder, env, inv, calls, http>>

\* A click on the reset button, confirmed: a toast and nothing else
HandleResetDefaults ==
    /\ browser.page = "/prompts"
    /\ ~browser.isLoading
    /\ browser' = [browser EXCEPT !.toast = "Funkcja przywracania zostanie wkrotce dodana"]
    /\ UNCHANGED <<text, pc, splitIndex, usedMarkerLength, post, imageOrderText,
                   imageOrder, env, inv, calls, http>>

InitPrompts ==
    /\ ParserUnused
    /\ env = [apiKey |-> TRUE, sdk |-> "ai-sdk", promptsReadable |-> TRUE]
    /\ inv = <<>>
    /\ calls = <<>>
    /\ http = Idle
    /\ browser = PromptsPage

NextPrompts ==
    \/ \E loaded \in BOOLEAN : LoadPrompts(loaded)
    \/ \E k \in 1..Len(Filenames) : HandleEdit(k)
    \/ \E value \in PromptTexts : ChangeText(value)
    \/ HandleSave
    \/ \E response \in SaveResponses : HandleSaveSettled(response)
    \/ HandleCancel
    \/ HandleResetDefaults

SpecPrompts == InitPrompts /\ [][NextPrompts]_vars

(***************************************************************************)
(* Vocabulary of the properties.                                           *)
(***************************************************************************)
Max(S) == CHOOSE x \in S : \A y \in S : y <= x

\* p is s without its leading and trailing white space
IsTrimOf(p, s) ==
    \E a \in 0..Len(s) : \E b \in a..Len(s) :
        /\ p = substring(s, a, b)
        /\ \A n \in 1..a : IsWhiteSpace(s[n])
        /\ \A n \in (b + 1)..Len(s) : IsWhiteSpace(s[n])
        /\ p # <<>> => ~IsWhiteSpace(p[1]) /\ ~IsWhiteSpace(p[Len(p)])

\* s holds a heading marker: a #, white space or nothing, one of the phrases
HasHeadingMarker(s) ==
    \E phrase \in {SUGEROWANA, KOLEJNOSC} : \E j \in 1..Len(s) : \E h \in 1..j :
        /\ s[h] = "#"
        /\ \A n \in (h + 1)..j : IsWhiteSpace(s[n])
        /\ LitAt(s, j, phrase)

\* s holds a line that is exactly ---
HasBareRule(s) ==
    \E k \in 0..(Len(s) - 3) :
        /\ substring(s, k, k + 3) = <<"-", "-", "-">>
        /\ (k = 0 \/ IsLineTerminator(s[k]))
        /\ (k + 3 = Len(s) \/ IsLineTerminator(s[k + 4]))

\* s holds the numbered line start "1." followed by a word
HasNumberedLine(s) ==
    \E k \in 0..(Len(s) - 3) : substring(s, k, k + 3) = <<"1", ".", "a">>

Permutations4 == {p \in [1..4 -> 1..4] : \A i, j \in 1..4 : p[i] = p[j] => i = j}

Reordered(p) == [i \in 1..4 |-> markers[p[i]]]

Result ==
    [splitIndex |-> splitIndex, usedMarkerLength |-> usedMarkerLength, post |-> post,
     imageOrderText |-> imageOrderText, imageOrder |-> imageOrder]

FirstOffsets(s) == {match(s, markers[i]).index : i \in 1..4}

(***************************************************************************)
(* C1: the split offset is the largest of the four patterns' first-match   *)
(* offsets, and parsing with the marker list in any other order returns    *)
(* the same result.                                                        *)
(***************************************************************************)
C1_LatestOffsetWins ==
    pc = "done" =>
        /\ splitIndex = Max(FirstOffsets(text))
        /\ \A p \in Permutations4 : parseResponseWith(text, Reordered(p)) = Result

\* a bare --- line comes first and a heading later: the split is at the heading
C1_Witness ==
    /\ pc = "done"
    /\ match(text, markers[4]).index >= 0
    /\ \E i \in 1..3 :
          /\ match(text, markers[i]).index > match(text, markers[4]).index
          /\ splitIndex = match(text, markers[i]).index
          /\ usedMarkerLength = match(text, markers[i]).length

(***************************************************************************)
(* C2: a text with no heading marker and no bare --- line comes back whole *)
(* and trimmed as the post, with an empty image order, numbered lines in   *)
(* it or not.                                                              *)
(***************************************************************************)
C2_NoMarkerWholeText ==
    (pc = "done" /\ ~HasHeadingMarker(text) /\ ~HasBareRule(text)) =>
        /\ IsTrimOf(post, text)
        /\ imageOrder = <<>>

C2_Witness ==
    /\ pc = "done"
    /\ ~HasHeadingMarker(text) /\ ~HasBareRule(text)
    /\ HasNumberedLine(text)
    /\ IsWhiteSpace(text[1])
    /\ imageOrder = <<>>
    /\ post # <<>>

(***************************************************************************)
(* C4: when a marker wins at offset k, the post is the text before k with  *)
(* a trailing bare --- line (and the white space around it) stripped, then *)
(* trimmed: a --- is removed only when it stands as a whole line at the    *)
(* end of that prefix, and the post never ends with a --- separator line.  *)
(***************************************************************************)
\* the prefix ends (white space aside) with a line that is exactly ---
EndsWithRuleLine(s) ==
    LET e == TrimEnd(s, Len(s))
    IN  /\ e >= 3
        /\ substring(s, e - 3, e) = <<"-", "-", "-">>
        /\ (e = 3 \/ IsLineTerminator(s[e - 3]))

ClaimedPost(s, k) ==
    LET prefix == substring(s, 0, k)
        e      == TrimEnd(prefix, Len(prefix))
    IN  IF EndsWithRuleLine(prefix) THEN trim(substring(prefix, 0, e - 3))
        ELSE trim(prefix)

C4_TrailingRuleLineOnly ==
    (pc = "done" /\ splitIndex >= 0) =>
        /\ post = ClaimedPost(text, splitIndex)
        /\ ~EndsWithRuleLine(post)

(***************************************************************************)
(* C6: parseResponse is total.  Every call returns a post and an image     *)
(* order, for the empty text, white space, a marker at offset 0 or at the  *)
(* very end alike, and a photo-order section with no line of the expected  *)
(* form gives an empty image order.                                        *)
(***************************************************************************)
NoLineMatches(s) == \A n \in 1..Len(lines(s)) : ~matchLine(lines(s)[n]).ok

C6_Total ==
    /\ pc \in {"call", "done"}
    /\ pc = "done" =>
        /\ DOMAIN post = 1..Len(post)
        /\ DOMAIN imageOrder = 1..Len(imageOrder)
        /\ \A n \in 1..Len(imageOrder) :
              /\ imageOrder[n].position \in Int
              /\ DOMAIN imageOrder[n].description = 1..Len(imageOrder[n].description)
        /\ (splitIndex = -1 \/ NoLineMatches(imageOrderText)) => imageOrder = <<>>

\* a marker at the very end of the text, after a post body: nothing follows it
C6_Witness ==
    /\ pc = "done"
    /\ splitIndex > 0
    /\ splitIndex + usedMarkerLength = Len(text)
    /\ imageOrder = <<>>
    /\ post # <<>>

(***************************************************************************)
(* C10 as stated: the post is a prefix of the raw text.                    *)
(***************************************************************************)
IsPrefix(p, s) == Len(p) <= Len(s) /\ p = substring(s, 0, Len(p))

C10_PostIsPrefix == pc = "done" => IsPrefix(post, text)

(***************************************************************************)
(* C10 amended: the post is a prefix of the raw text without its leading   *)
(* white space: it stands in the raw text in one piece, with nothing but   *)
(* white space before it.                                                  *)
(***************************************************************************)
C10_PostIsPrefixAfterLeadingSpace ==
    pc = "done" =>
        \E a \in 0..Len(text) :
            /\ \A n \in 1..a : IsWhiteSpace(text[n])
            /\ IsPrefix(post, substring(text, a, Len(text)))

\* a marker was found and the text before it lost its leading white space
C10_Witness ==
    /\ pc = "done"
    /\ splitIndex > 0
    /\ post # <<>>
    /\ IsWhiteSpace(text[1])
    /\ Len(post) + 1 < splitIndex

(***************************************************************************)
(* Vocabulary of the properties on the photo-order section.                *)
(***************************************************************************)
Matches(line) == matchLine(line).ok

\* the lines of the section that match the line pattern, in their order
MatchedLines(s) == SelectSeq(lines(s), Matches)

\* the item the code is to emit for a matching line
ItemOf(line) ==
    [position |-> parseInt(matchLine(line).digits) - 1,
     description |-> describe(matchLine(line).rest)]

\* the value of a run of decimal digits, read from the left
DecimalValue(ds) ==
    LET RECURSIVE H(_, _)
        H(k, acc) == IF k > Len(ds) THEN acc ELSE H(k + 1, 10 * acc + DigitVal(ds[k]))
    IN  H(1, 0)

HasBold(s) == \E k \in 1..(Len(s) - 1) : s[k] = "*" /\ s[k + 1] = "*"

\* the offsets at which the heading "## SUGEROWANA KOLEJNOSC ZDJEC:" stands
HeadingOffsets(s) == {k \in 0..(Len(s) - Len(HEADING)) : LitAt(s, k, HEADING)}

\* line is the well-formed line number i: the numeral, a separator, white space or
\* none, then a description that starts with a word and holds no # and no line end
WellFormedLine(line, i) ==
    /\ Len(line) >= 3
    /\ line[1] = Numerals[i]
    /\ IsSeparator(line[2])
    /\ LET d == SkipSpace(line, 2)
       IN  /\ d < Len(line)
           /\ \A n \in (d + 1)..Len(line) : line[n] # "#" /\ ~IsLineTerminator(line[n])

\* the number N of well-formed lines, numbered 1..N, that follow the one heading of
\* s up to its end; -1 when s is not of that form
NumberedAfterHeading(s) ==
    IF Cardinality(HeadingOffsets(s)) # 1 THEN -1
    ELSE LET k  == CHOOSE h \in HeadingOffsets(s) : TRUE
             ls == filterNonBlank(split(substring(s, k + Len(HEADING), Len(s)), 0, <<>>))
         IN  IF Len(ls) <= Len(Numerals) /\ \A i \in 1..Len(ls) : WellFormedLine(ls[i], i)
             THEN Len(ls) ELSE -1

Documented ==
    <<"Oto", " ", "post...", "\n", "\n", "-", "-", "-", "\n", "\n">> \o HEADING \o
    <<"\n", "1", ".", " ", "Hero", " ", "shot", " ", "pokoju",
      "\n", "2", ".", " ", "Biurko", " ", "z", " ", "bliska",
      "\n", "3", ".", " ", "Szafa">>

DocumentedOrder ==
    << [position |-> 0, description |-> <<"Hero", " ", "shot", " ", "pokoju">>],
       [position |-> 1, description |-> <<"Biurko", " ", "z", " ", "bliska">>],
       [position |-> 2, description |-> <<"Szafa">>] >>

(***************************************************************************)
(* C3: a text with exactly one heading "## SUGEROWANA KOLEJNOSC ZDJEC:"    *)
(* followed to its end by N well-formed lines numbered 1..N gives exactly  *)
(* N items, the i-th (from 0) at position i; the documented scenario gives *)
(* the post "Oto post..." and its three items.                             *)
(***************************************************************************)
C3_HeadingThenNumberedLines ==
    pc = "done" =>
        /\ NumberedAfterHeading(text) >= 0 =>
              /\ Len(imageOrder) = NumberedAfterHeading(text)
              /\ \A i \in 1..Len(imageOrder) : imageOrder[i].position = i - 1
        /\ text = Documented =>
              /\ post = <<"Oto", " ", "post...">>
              /\ imageOrder = DocumentedOrder

C3_Witness ==
    /\ pc = "done"
    /\ text = Documented
    /\ NumberedAfterHeading(text) = 3
    /\ imageOrder = DocumentedOrder

(***************************************************************************)
(* C5: parseImageOrder gives one item per line that matches the pattern,   *)
(* in the order of the lines; other lines are skipped, and nothing is      *)
(* sorted, de-duplicated, renumbered or filled in.                         *)
(***************************************************************************)
C5_OneItemPerMatchingLine ==
    (pc = "done" /\ splitIndex >= 0) =>
        /\ Len(imageOrder) = Len(MatchedLines(imageOrderText))
        /\ \A n \in 1..Len(imageOrder) :
              imageOrder[n] = ItemOf(MatchedLines(imageOrderText)[n])

\* a line that does not match stands between two that do, and the two items come
\* out in line order with the same number twice
C5_Witness ==
    /\ pc = "done"
    /\ Len(lines(imageOrderText)) = 3
    /\ Matches(lines(imageOrderText)[1])
    /\ ~Matches(lines(imageOrderText)[2])
    /\ Matches(lines(imageOrderText)[3])
    /\ Len(imageOrder) = 2
    /\ imageOrder[1].position = imageOrder[2].position

(***************************************************************************)
(* C7: the position of an item is the decimal number at the start of its   *)
(* line minus 1, neither clamped nor validated: line 0 gives position -1.  *)
(***************************************************************************)
C7_PositionIsNumberMinusOne ==
    (pc = "done" /\ splitIndex >= 0) =>
        /\ Len(imageOrder) = Len(MatchedLines(imageOrderText))
        /\ \A n \in 1..Len(imageOrder) :
              LET line == MatchedLines(imageOrderText)[n]
                  from == IF IsDigit(line[1]) THEN 0 ELSE SkipSpace(line, 1)
              IN  imageOrder[n].position =
                      DecimalValue(substring(line, from, SkipDigits(line, from))) - 1

\* a line numbered 0 (or 00) gives an item at position -1
C7_Witness ==
    /\ pc = "done"
    /\ Len(imageOrder) >= 1
    /\ imageOrder[1].position = -1
    /\ IsDigit(imageOrderText[1])

(***************************************************************************)
(* C8: the description of an item is the matched remainder of its line     *)
(* with every ** removed and then trimmed: it holds no **, and no white    *)
(* space at either end.                                                    *)
(***************************************************************************)
C8_DescriptionStrippedThenTrimmed ==
    (pc = "done" /\ splitIndex >= 0) =>
        /\ Len(imageOrder) = Len(MatchedLines(imageOrderText))
        /\ \A n \in 1..Len(imageOrder) :
              LET d == imageOrder[n].description
              IN  /\ d = trim(removeBold(matchLine(MatchedLines(imageOrderText)[n]).rest))
                  /\ ~HasBold(d)
                  /\ d # <<>> => ~IsWhiteSpace(d[1]) /\ ~IsWhiteSpace(d[Len(d)])

(***************************************************************************)
(* C9: each documented line shape, "1. Description", "1) Description" and  *)
(* "Image 1 - Description", gives one item with position 0 and the         *)
(* description "Description".                                              *)
(***************************************************************************)
DocumentedShapes ==
    { <<"1", ".", " ", "Description">>,
      <<"1", ")", " ", "Description">>,
      <<"Image", " ", "1", " ", "-", " ", "Description">> }

C9_DocumentedShapesAccepted ==
    (pc = "done" /\ imageOrderText \in DocumentedShapes) =>
        imageOrder = << [position |-> 0, description |-> <<"Description">>] >>

(***************************************************************************)
(* C11: the photo items come only from the text after the winning offset   *)
(* plus the marker length: they are, one by one, the matching lines of     *)
(* that suffix, and a numbered line before the split gives no item.        *)
(***************************************************************************)
\* what follows the winning marker in the raw text
Suffix == substring(text, splitIndex + usedMarkerLength, Len(text))

\* what precedes the winning marker in the raw text
Prefix == substring(text, 0, splitIndex)

C11_ItemsFromSuffixOnly ==
    (pc = "done" /\ splitIndex >= 0) =>
        /\ Len(imageOrder) = Len(MatchedLines(trim(Suffix)))
        /\ \A n \in 1..Len(imageOrder) :
              imageOrder[n] = ItemOf(MatchedLines(trim(Suffix))[n])

\* a numbered line stands before the split and none after it: no item
C11_Witness ==
    /\ pc = "done"
    /\ splitIndex >= 3
    /\ Matches(trim(Prefix))
    /\ MatchedLines(trim(Suffix)) = <<>>
    /\ imageOrder = <<>>

(***************************************************************************)
(* C12: when the split is made at a heading marker, the post holds no      *)
(* symbol of the heading: none of its # (three or more # included), none   *)
(* of its phrase.                                                          *)
(***************************************************************************)
SplitAtHeading == splitIndex >= 0 /\ text[splitIndex + 1] = "#"

C12_PostFreeOfHeading ==
    (pc = "done" /\ SplitAtHeading) =>
        /\ ~(splitIndex > 0 /\ text[splitIndex] = "#" /\ post # <<>> /\ post[Len(post)] = "#")
        /\ Len(post) <= splitIndex

(***************************************************************************)
(* C20: the split is the last boundary of the text: no heading marker and  *)
(* no bare --- line occurs after the winning marker.                       *)
(***************************************************************************)
MarkerAfter(s, from) ==
    \E k \in from..(Len(s) - 1) : \E i \in 1..4 : MatchAt(s, k, markers[i]) > 0

C20_SplitIsLastBoundary ==
    (pc = "done" /\ splitIndex >= 0) => ~MarkerAfter(text, splitIndex + usedMarkerLength)

(***************************************************************************)
(* Vocabulary of the properties of generatePost.                           *)
(***************************************************************************)
Resolved(i) == DOMAIN inv[i].answer = {"resolved"}

Rejected(i) == DOMAIN inv[i].answer = {"rejected"}

Finished(i) == inv[i].pc \in {"returned", "threw"}

\* the provider answered invocation i with a message that holds no text block
NoTextBlock(i) ==
    /\ Resolved(i)
    /\ \A k \in 1..Len(inv[i].answer.resolved.content) :
          inv[i].answer.resolved.content[k].type # "text"

\* what a failed provider call makes generatePost throw
TransportFailures ==
    { [error |-> <<"Failed to generate post: ", m>>] : m \in {"Overloaded", "Unknown error"} }

(***************************************************************************)
(* C14: without ANTHROPIC_API_KEY an invocation issues no provider call,   *)
(* and once it has run it has thrown the configuration error.              *)
(***************************************************************************)
C14_NoKeyNoCall ==
    \A i \in DOMAIN inv :
        ~env.apiKey =>
            /\ calls[i] = <<>>
            /\ inv[i].pc \in {"start", "threw"}
            /\ inv[i].pc = "threw" =>
                  inv[i].outcome = [error |-> <<"ANTHROPIC_API_KEY is not set in environment variables">>]

C14_Witness ==
    \E i \in DOMAIN inv : ~env.apiKey /\ inv[i].pc = "threw" /\ calls[i] = <<>>

(***************************************************************************)
(* C15: an invocation issues at most one provider call; when that call     *)
(* fails the invocation has thrown a generation failure, holds no result   *)
(* and has issued no second call.                                          *)
(***************************************************************************)
C15_OneCallNoRetry ==
    \A i \in DOMAIN inv :
        /\ Len(calls[i]) <= 1
        /\ Rejected(i) =>
              /\ inv[i].pc = "threw"
              /\ inv[i].outcome \in TransportFailures
              /\ Len(calls[i]) = 1

C15_Witness ==
    \E i \in DOMAIN inv : Rejected(i) /\ inv[i].pc = "threw" /\ Len(calls[i]) = 1

(***************************************************************************)
(* C16: for a provider answer without text block generatePost throws,      *)
(* never returns a post, and what it throws differs from what it throws    *)
(* for a failed provider call.                                             *)
(***************************************************************************)
C16_NoTextBlockFails ==
    \A i \in DOMAIN inv :
        NoTextBlock(i) =>
            /\ inv[i].pc = "threw"
            /\ inv[i].outcome \notin TransportFailures

(***************************************************************************)
(* C17: every provider call of a request with N images carries the system  *)
(* prompt of the request, unchanged and apart from the messages, and one   *)
(* user message of N + 2 blocks: the user prompt as text, the PDF with its  *)
(* declared MIME type, then the images in the order of the request.        *)
(***************************************************************************)
\* block is the image block of img, in either build
IsImageBlockOf(block, img) ==
    /\ block.type = "image"
    /\ IF env.sdk = "ai-sdk"
       THEN block.image = <<"data:", img.type, ";base64,", img.data>>
       ELSE block.source.media_type = img.type /\ block.source.data = img.data

\* block is the document block of pdf, in either build
IsPdfBlockOf(block, pdf) ==
    IF env.sdk = "ai-sdk"
    THEN block.type = "file" /\ block.mediaType = pdf.type /\ block.data = [bytes |-> pdf.data]
    ELSE /\ block.type = "document"
         /\ block.source.media_type = pdf.type
         /\ block.source.data = pdf.data

C17_PayloadShape ==
    \A i \in DOMAIN inv : \A c \in 1..Len(calls[i]) :
        LET call == calls[i][c]
            request == inv[i].request
            N == Len(request.images)
        IN  /\ call.system = request.systemPrompt
            /\ Len(call.messages) = 1
            /\ call.messages[1].role = "user"
            /\ Len(call.messages[1].content) = N + 2
            /\ call.messages[1].content[1] = [type |-> "text", text |-> request.userPrompt]
            /\ IsPdfBlockOf(call.messages[1].content[2], request.pdf)
            /\ \A k \in 1..N :
                  IsImageBlockOf(call.messages[1].content[k + 2], request.images[k])

C17_Witness ==
    \E i \in DOMAIN inv :
        /\ Len(calls[i]) = 1
        /\ Len(inv[i].request.images) >= 2
        /\ inv[i].request.images[1] # inv[i].request.images[2]
        /\ Len(calls[i][1].messages[1].content) = Len(inv[i].request.images) + 2

(***************************************************************************)
(* C19: concurrent invocations are independent: a step of one invocation   *)
(* changes nothing of another; what an invocation sends depends on its own *)
(* request and what it returns or throws on its own provider answer; and   *)
(* every invocation but the first completes although the provider call of *)
(* the first may never return.                                             *)
(***************************************************************************)
\* invocations with the same request send the same, and with the same answer end
\* the same
OwnRequestOwnAnswer ==
    \A i \in DOMAIN inv : \A j \in DOMAIN inv :
        /\ (inv[i].request = inv[j].request /\ inv[i].pc # "start" /\ inv[j].pc # "start")
              => calls[i] = calls[j]
        /\ (Finished(i) /\ Finished(j) /\ DOMAIN inv[i].answer = DOMAIN inv[j].answer
                /\ inv[i].answer = inv[j].answer)
              => (inv[i].pc = inv[j].pc /\ inv[i].outcome = inv[j].outcome)

\* a step leaves every invocation but one as it was
OneInvocationPerStep ==
    \A i \in DOMAIN inv : \A j \in DOMAIN inv :
        (i # j /\ (inv[i]' # inv[i] \/ calls[i]' # calls[i]))
            => (inv[j]' = inv[j] /\ calls[j]' = calls[j])

C19_InvocationsIndependent ==
    /\ [][OneInvocationPerStep]_vars
    /\ []OwnRequestOwnAnswer
    /\ \A i \in 2..MaxInvocations : <>(i \notin DOMAIN inv \/ Finished(i))

\* the first invocation still waits for the provider, the second has returned
C19_Witness ==
    /\ 2 \in DOMAIN inv
    /\ inv[1].pc = "awaiting"
    /\ inv[2].pc = "returned"
    /\ inv[1].request # inv[2].request

(***************************************************************************)
(* Vocabulary of the properties of the route and the pages.                *)
(***************************************************************************)
\* the route has answered the request in flight
Answered == http.pc \in {"responded", "consumed"}

PageOpen == browser.page # "closed"

(***************************************************************************)
(* C13: after a successful generation the photo order reaches the user:    *)
(* the 200 response of the route carries imageOrder, the generatedPost     *)
(* record in sessionStorage carries imageOrder, and the result page never  *)
(* reads an absent imageOrder.                                             *)
(***************************************************************************)
C13_ImageOrderReachesUser ==
    /\ (Answered /\ http.response.status = 200)
          => "imageOrder" \in DOMAIN http.response.json
    /\ (PageOpen /\ http.pc = "consumed" /\ http.response.status = 200
            /\ browser.page = "/result")
          => /\ "imageOrder" \in DOMAIN browser.sessionStorage.generatedPost[2]
             /\ browser.render \in {"loading", "rendered"}

(***************************************************************************)
(* C18: a request with fewer than 3 or more than 10 images (2 and 11       *)
(* among them) is answered 400 and generatePost is not called for it; a    *)
(* request with 3 to 10 images (3 and 10 among them) and valid types is    *)
(* not answered 400; validateImages accepts a selection of valid files     *)
(* exactly when it holds 3 to 10 of them, so the page sends only such.     *)
(***************************************************************************)
AllImagesFine(files) ==
    \A k \in 1..Len(files) :
        /\ files[k].type \in {"image/jpeg", "image/png", "image/jpg"}
        /\ files[k].size <= 5242880

C18_ImageCountBounds ==
    /\ http.pc \in {"generating", "responded", "consumed"} =>
          LET n == Len(http.body.images)
          IN  /\ (n < 3 \/ n > 10) =>
                    /\ Answered
                    /\ http.response.status = 400
                    /\ inv = <<>>
                    /\ calls = <<>>
              /\ (n \in 3..10 /\ http.body.postType \in {"fb-ig", "fb-group"}) =>
                    (http.pc = "generating" \/ http.response.status # 400)
    /\ PageOpen =>
          /\ validateImages(browser.images).valid => Len(browser.images) \in 3..10
          /\ (Len(browser.images) \in 3..10 /\ AllImagesFine(browser.images))
                => validateImages(browser.images).valid
    /\ (http.from = "page" /\ http.pc # "idle") => Len(http.body.images) \in 3..10

\* a request with 2 images was answered 400 and nothing was called
C18_Witness ==
    /\ Answered
    /\ Len(http.body.images) = 2
    /\ http.body.postType = "fb-group"
    /\ http.response.status = 400
    /\ inv = <<>>

(***************************************************************************)
(* C21: no two distinct patterns of the marker list have their first match *)
(* at the same offset.                                                     *)
(***************************************************************************)
C21_NoSharedOffset ==
    pc = "done" =>
        \A i \in 1..4 : \A j \in 1..4 :
            (i # j /\ match(text, markers[i]).index >= 0)
                => match(text, markers[i]).index # match(text, markers[j]).index

(***************************************************************************)
(* C21 amended: the second and the third pattern differ by case only and,  *)
(* with the i flag, always have the same first match (offset and length);  *)
(* no other two patterns have their first match at the same offset; so     *)
(* the order of the list never changes the chosen offset or marker length. *)
(***************************************************************************)
C21_OnlyTheTwinsShareAnOffset ==
    pc = "done" =>
        /\ match(text, markers[2]) = match(text, markers[3])
        /\ \A i \in 1..4 : \A j \in 1..4 :
              (i < j /\ <<i, j>> # <<2, 3>> /\ match(text, markers[i]).index >= 0)
                  => match(text, markers[i]).index # match(text, markers[j]).index
        /\ \A p \in Permutations4 :
              /\ FindSplit(text, Reordered(p), 1, NoMatch).index = splitIndex
              /\ FindSplit(text, Reordered(p), 1, NoMatch).length = usedMarkerLength

\* the second and third pattern match at the same offset, where the split is made,
\* after a bare --- line
C21_Witness ==
    /\ pc = "done"
    /\ match(text, markers[2]).index = splitIndex
    /\ match(text, markers[3]).index = splitIndex
    /\ splitIndex > 0
    /\ match(text, markers[4]).index \in 0..(splitIndex - 1)

(***************************************************************************)
(* C22: the third marker pattern is redundant: parsing with the first,     *)
(* second and fourth pattern only returns the same post and image order.   *)
(***************************************************************************)
WithoutThird == <<markers[1], markers[2], markers[4]>>

C22_ThirdPatternRedundant ==
    pc = "done" =>
        /\ parseResponseWith(text, WithoutThird).post = post
        /\ parseResponseWith(text, WithoutThird).imageOrder = imageOrder

\* the split is made where only the second and third pattern match, and items follow
C22_Witness ==
    /\ pc = "done"
    /\ splitIndex >= 0
    /\ match(text, markers[3]).index = splitIndex
    /\ match(text, markers[1]).index # splitIndex
    /\ match(text, markers[4]).index # splitIndex
    /\ imageOrder # <<>>

(***************************************************************************)
(* C30: every item of the image order has a non-empty description: a       *)
(* numbered line whose remainder is only white space or only bold markers  *)
(* gives no item.                                                          *)
(***************************************************************************)
C30_DescriptionsNonEmpty ==
    pc = "done" => \A n \in 1..Len(imageOrder) : imageOrder[n].description # <<>>

(***************************************************************************)
(* More vocabulary of the route and the pages.                             *)
(***************************************************************************)
\* the body passes the schema of the route
ValidBody ==
    /\ Len(http.body.images) \in 3..10
    /\ http.body.postType \in {"fb-ig", "fb-group"}
    /\ http.body.projectType \in {"mroomygo", "premium", "premium-plus"}

\* a PDF of at most 10 MB; a list of 3 to 10 JPEG/PNG files of at most 5 MB each
PdfOk(file) == file.type = "application/pdf" /\ file.size <= 10485760

ImagesOk(files) == Len(files) \in 3..10 /\ AllImagesFine(files)

OnGeneratePage == PageOpen /\ browser.page = "/generate"

\* the route answered the page's request with a status outside 200..299
NotOk == http.response.status \notin 200..299

(***************************************************************************)
(* C23: the route answers 200 only when the body was valid, the prompt was *)
(* loaded and generatePost returned a result; after validation a prompt    *)
(* file that cannot be read, a missing key, a failed provider call and an  *)
(* answer without text each give a 500 response that carries the message   *)
(* and no success body; and a prompt that cannot be loaded means no        *)
(* provider call.                                                          *)
(***************************************************************************)
C23_FailuresSurfaceAs500 ==
    Answered =>
        /\ http.response.status = 200 =>
              /\ ValidBody
              /\ env.promptsReadable
              /\ inv # <<>>
              /\ inv[1].pc = "returned"
        /\ (ValidBody /\ (\/ ~env.promptsReadable
                          \/ ~env.apiKey
                          \/ (inv # <<>> /\ (Rejected(1) \/ NoTextBlock(1))))) =>
              /\ http.response.status = 500
              /\ DOMAIN http.response.json = {"error", "message"}
              /\ http.response.json.error = "Failed to generate post"
        /\ (ValidBody /\ ~env.promptsReadable) => (inv = <<>> /\ calls = <<>>)

(***************************************************************************)
(* C24: the page sends a request only when a PDF is selected and both      *)
(* validators pass; validatePdf accepts exactly the application/pdf files  *)
(* of at most 10 MB, validateImages exactly the lists of 3 to 10 JPEG/PNG  *)
(* files of at most 5 MB each; for any other selection a click sends       *)
(* nothing and isGenerating stays false.                                   *)
(***************************************************************************)
ValidatorsExact ==
    OnGeneratePage =>
        /\ browser.pdfFile # NoFile =>
              (validatePdf(browser.pdfFile).valid <=> PdfOk(browser.pdfFile))
        /\ validateImages(browser.images).valid <=> ImagesOk(browser.images)

SelectionOk ==
    browser.pdfFile # NoFile /\ PdfOk(browser.pdfFile) /\ ImagesOk(browser.images)

SendsOnlyValidated ==
    /\ (http' # http /\ http'.pc = "sent" /\ http'.from = "page") => SelectionOk
    /\ (OnGeneratePage /\ ~SelectionOk) =>
          (http' = http /\ ~browser.isGenerating /\ ~browser'.isGenerating)

C24_RequestOnlyAfterValidation == []ValidatorsExact /\ [][SendsOnlyValidated]_vars

\* a request was sent for a PDF of exactly 10 MB and 10 images of exactly 5 MB
C24_Witness ==
    /\ PageOpen
    /\ http.pc = "sent"
    /\ http.from = "page"
    /\ browser.pdfFile.size = 10485760
    /\ Len(browser.images) = 10
    /\ \A k \in 1..10 : browser.images[k].size = 5242880

(***************************************************************************)
(* C25: a compression that fails does not fail the conversion: the request *)
(* is sent with the original name and type of every image; a compression   *)
(* that succeeds gives every image the type image/jpeg; and the PDF keeps  *)
(* its name and its type application/pdf, as it is never compressed.       *)
(***************************************************************************)
C25_CompressionNeverFails ==
    (PageOpen /\ browser.conversion \in {"compressed", "original"}) =>
        /\ http.from = "page"
        /\ http.pc # "idle"
        /\ http.body.pdf.name = browser.pdfFile.name
        /\ http.body.pdf.type = "application/pdf"
        /\ Len(http.body.images) = Len(browser.images)
        /\ \A k \in 1..Len(browser.images) :
              /\ http.body.images[k].name = browser.images[k].name
              /\ http.body.images[k].type =
                    IF browser.conversion = "compressed" THEN "image/jpeg"
                    ELSE browser.images[k].type

\* compressImage failed and the request went out with a PNG as it was
C25_Witness ==
    /\ PageOpen
    /\ browser.conversion = "original"
    /\ http.pc = "sent"
    /\ http.from = "page"
    /\ http.body.images[2].type = "image/png"

(***************************************************************************)
(* C26: isGenerating is true only while a run of handleGenerate is under   *)
(* way, and when the request completes every run that has set it ends with *)
(* it false: the conversion failing, the fetch failing, a response that is *)
(* not OK, the thumbnails failing, and success.                            *)
(***************************************************************************)
C26_IsGeneratingReset ==
    /\ [](PageOpen => (browser.isGenerating <=> browser.handler # "idle"))
    /\ (PageOpen /\ browser.isGenerating)
          ~> (PageOpen /\ ~browser.isGenerating /\ browser.handler = "idle")

\* a response that was not OK has been handled and isGenerating is false again
C26_Witness ==
    /\ PageOpen
    /\ http.pc = "consumed"
    /\ NotOk
    /\ browser.toast = "Failed to generate post"
    /\ ~browser.isGenerating

(***************************************************************************)
(* C27: the session record is written, and the page goes to /result, only  *)
(* in the step that handles an OK response; when the fetch fails or the    *)
(* response is not OK, sessionStorage (an earlier result included) and the *)
(* page stay as they were.                                                 *)
(***************************************************************************)
StoresOnlyAfterOk ==
    OnGeneratePage =>
        /\ (browser'.sessionStorage # browser.sessionStorage \/ browser'.page = "/result")
              => /\ http.pc = "responded"
                 /\ http.from = "page"
                 /\ ~NotOk
                 /\ browser'.sessionStorage # browser.sessionStorage
                 /\ browser'.page = "/result"
        /\ (browser.handler = "fetching" /\ browser'.handler = "idle"
                /\ (http.pc = "sent" \/ NotOk))
              => /\ browser'.sessionStorage = browser.sessionStorage
                 /\ browser'.page = browser.page

C27_SessionWrittenOnlyAfterOk == [][StoresOnlyAfterOk]_vars

\* an earlier result is still stored after a response that was not OK
C27_Witness ==
    /\ OnGeneratePage
    /\ http.pc = "consumed"
    /\ NotOk
    /\ "generatedPost" \in DOMAIN browser.sessionStorage
    /\ browser.sessionStorage.generatedPost[2].generatedAt = "earlier"

(***************************************************************************)
(* C28: at most one run of handleGenerate is under way on the page: a      *)
(* click starts a run only when none is under way, a request is sent only  *)
(* when no request of the page is outstanding, and the session record is   *)
(* written by the one run under way.                                       *)
(***************************************************************************)
OneRunPerStep ==
    OnGeneratePage =>
        /\ browser'.runs > browser.runs => browser.runs = 0
        /\ (http' # http /\ http'.pc = "sent")
              => http.pc \in {"idle", "lost", "consumed"}
        /\ browser'.sessionStorage # browser.sessionStorage
              => (browser.runs = 1 /\ browser'.runs = 0)

C28_OneRequestInFlight ==
    /\ [](PageOpen => browser.runs \in {0, 1})
    /\ [](PageOpen => (browser.runs = 1 <=> browser.isGenerating))
    /\ [][OneRunPerStep]_vars

\* a second run was started by a click after the first had failed
C28_Witness ==
    /\ OnGeneratePage
    /\ browser.runs = 1
    /\ browser.handler = "converting"
    /\ http.pc = "consumed"

(***************************************************************************)
(* C29: on the prompts page a save that fails changes nothing but isSaving *)
(* (and the toast): the list keeps its contents, the editor stays open     *)
(* with the text it held, and isSaving is false again; the list changes    *)
(* only by a save that succeeded, which replaces the content of the prompt *)
(* that was saved by the text that was sent, leaves every other prompt as  *)
(* it was and closes the editor.  isSaving is true exactly while the       *)
(* request is under way, the editor is open all that time, and what        *)
(* handleSave closed over is the list as it is and the text that was sent. *)
(***************************************************************************)
OnPromptsPage == browser.page = "/prompts"

\* the step in which handleSave ends
SaveEnds == OnPromptsPage /\ browser.isSaving /\ ~browser'.isSaving

\* the file name and the text of the request under way
SavedFilename == http.body.url[2]

SavedText == JSONparse(http.body.body).content

WhileSaving ==
    OnPromptsPage =>
        /\ browser.isSaving <=> http.pc = "sent"
        /\ browser.isSaving =>
              /\ browser.editingPrompt # NoPrompt
              /\ browser.saving.editingPrompt = SavedFilename
              /\ browser.saving.tempPrompt = SavedText
              /\ browser.saving.prompts = browser.prompts

FailedSaveKeepsState ==
    (SaveEnds /\ ~http'.response.ok) =>
        /\ browser'.prompts = browser.prompts
        /\ browser'.editingPrompt = browser.editingPrompt
        /\ browser'.editingPrompt # NoPrompt
        /\ browser'.tempPrompt = browser.tempPrompt
        /\ browser'.isLoading = browser.isLoading

SuccessfulSaveReplacesOne ==
    (SaveEnds /\ http'.response.ok) =>
        /\ browser'.editingPrompt = NoPrompt
        /\ Len(browser'.prompts) = Len(browser.prompts)
        /\ \A k \in 1..Len(browser.prompts) :
              browser'.prompts[k] =
                 IF browser.prompts[k].filename = SavedFilename
                 THEN [browser.prompts[k] EXCEPT !.content = SavedText]
                 ELSE browser.prompts[k]

OnlyASuccessfulSaveChangesThePrompts ==
    (OnPromptsPage /\ ~browser.isLoading /\ browser'.prompts # browser.prompts) =>
        (SaveEnds /\ http'.response.ok)

C29_FailedSaveChangesNothing ==
    /\ []WhileSaving
    /\ [][/\ FailedSaveKeepsState
          /\ SuccessfulSaveReplacesOne
          /\ OnlyASuccessfulSaveChangesThePrompts]_vars

\* a save of an edited text has failed (the list still holds the old text, the
\* editor the new one), after a save that had replaced another text
C29_Witness ==
    /\ OnPromptsPage
    /\ http.pc = "consumed"
    /\ ~http.response.ok
    /\ ~browser.isSaving
    /\ browser.editingPrompt = "fb-group.txt"
    /\ browser.tempPrompt = <<"a">>
    /\ browser.prompts[2].content = <<"b">>
    /\ browser.prompts[1].content = <<"b">>
    /\ browser.toast = "Failed to save prompt file"

====
